---- MODULE Spec2Model ----
(***************************************************************************)
(* Model of package loadenv (solorez/loadenv): loading a .env file into    *)
(* the process environment, with an fsnotify-driven, debounced hot reload  *)
(* that reports the difference between two successive file contents.       *)
(*                                                                         *)
(* Text is a sequence of one-character strings.  A mapping (Go             *)
(* map[string]string, the process environment) is a function whose domain  *)
(* is the set of its keys.  Time is counted in seconds.                    *)
(***************************************************************************)
EXTENDS Integers, Sequences, FiniteSets, TLC

\* ------------------------------------------------------------------ bounds

\* goroutines that call InitEnv
NCallers == 2
\* the clock stops advancing here
MaxTime == 2
\* timers the event loop may create (time.AfterFunc calls)
MaxTimers == 2
\* capacity of the modelled watcher.Events backlog
MaxQueue == 1
\* longest file content given to parseEnvFile on its own
MaxText == 6
\* longest key and longest value of a mapping that is written out and parsed
MaxWord == 1
\* most entries of such a mapping
MaxEntries == 2

\* ------------------------------------------------------- program constants

\* cfg.ReloadDelay == 0 is replaced by 2 * time.Second
DefaultDelay == 2

\* cfg.FilePath == "" is replaced by ".env"; watchEvents reads ".env" literally
DotEnv == ".env"

\* ------------------------------------------------------------ text helpers

\* unicode.IsSpace on the characters the model uses inside a line
IsSpace(c) == c \in {" ", "\t", "\r"}

\* s[i..] as a sequence (empty when i > Len(s))
Drop(s, i) == SubSeq(s, i, Len(s))

RECURSIVE TrimLeft(_)
TrimLeft(s) == IF s # <<>> /\ IsSpace(Head(s)) THEN TrimLeft(Tail(s)) ELSE s

RECURSIVE TrimRight(_)
TrimRight(s) ==
  IF s # <<>> /\ IsSpace(s[Len(s)]) THEN TrimRight(SubSeq(s, 1, Len(s) - 1)) ELSE s

\* strings.TrimSpace
TrimSpace(s) == TrimRight(TrimLeft(s))

\* a parser that skips every line holding a "#"
HasHashAnywhere(s) == \E i \in 1 .. Len(s) : s[i] = "#"

\* strings.HasPrefix(s, "#")
HasPrefixHash(s) == s # <<>> /\ Head(s) = "#"

\* index of the first occurrence of character c in s, 0 when there is none
RECURSIVE IndexFrom(_, _, _)
IndexFrom(s, c, i) ==
  IF i > Len(s) THEN 0 ELSE IF s[i] = c THEN i ELSE IndexFrom(s, c, i + 1)

Index(s, c) == IndexFrom(s, c, 1)

\* strings.Split(content, "\n"): always at least one piece
RECURSIVE SplitLines(_)
SplitLines(s) ==
  LET i == Index(s, "\n")
  IN  IF i = 0 THEN <<s>> ELSE <<SubSeq(s, 1, i - 1)>> \o SplitLines(Drop(s, i + 1))

\* a parser that cuts a line at its last "="
SplitAtLast(line) ==
  LET eqs == {i \in 1 .. Len(line) : line[i] = "="}
      i == CHOOSE e \in eqs : \A x \in eqs : e >= x
  IN  IF eqs = {} THEN <<line>> ELSE <<SubSeq(line, 1, i - 1), Drop(line, i + 1)>>

\* strings.SplitN(line, "=", 2): one piece without "=", else cut at the first "="
SplitN2(line) ==
  LET i == Index(line, "=")
  IN  IF i = 0 THEN <<line>> ELSE <<SubSeq(line, 1, i - 1), Drop(line, i + 1)>>

\* env[key] = value on a Go map
MapPut(m, k, v) == [x \in (DOMAIN m) \cup {k} |-> IF x = k THEN v ELSE m[x]]

\* the empty map
EmptyMap == <<>>

\* one iteration of the loop of parseEnvFile
ParseLine(env, rawLine) ==
  LET line == TrimSpace(rawLine)
  IN  IF line = <<>> \/ HasPrefixHash(line)
      THEN env
      ELSE LET parts == SplitN2(line)
           IN  IF Len(parts) = 2
               THEN MapPut(env, TrimSpace(parts[1]), TrimSpace(parts[2]))
               ELSE env

RECURSIVE ParseLines(_, _)
ParseLines(env, lines) ==
  IF lines = <<>> THEN env ELSE ParseLines(ParseLine(env, Head(lines)), Tail(lines))

\* parseEnvFile(content)
parseEnvFile(content) == ParseLines(EmptyMap, SplitLines(content))

\* ------------------------------------------------------------------- diff

\* a first loop that reports new keys only
DiffNewOnlyAdded(old, new) ==
  {<<"Added", k, new[k]>> : k \in (DOMAIN new) \ (DOMAIN old)}

\* first loop of the timer callback: "New environment variable" and
\* "Environment variable changed" lines, as Added and Changed events
DiffNew(old, new) ==
  {<<"Added", k, new[k]>> : k \in (DOMAIN new) \ (DOMAIN old)}
    \cup {<<"Changed", k, old[k], new[k]>> :
            k \in {x \in (DOMAIN new) \cap (DOMAIN old) : old[x] # new[x]}}

\* second loop of the timer callback: "Environment variable removed" lines
DiffRemoved(old, new) == {<<"Removed", k>> : k \in (DOMAIN old) \ (DOMAIN new)}

\* everything one timer callback reports for old and new
Diff(old, new) == DiffNew(old, new) \cup DiffRemoved(old, new)

\* ------------------------------------------------------------ file system

\* the file contents the environment writes
Text1 == <<"a", "=", "1", "\n", "b", "=", "1">>
Text2 == <<"#", " ", "c", "\n", " ", "a", " ", "=", " ", "2", " ", "\n">>

Texts == {Text1, Text2}

\* a file that does not exist
Missing == <<"missing">>

\* the two paths of the model: ".env" and another configured path
OtherPath == "conf.env"
Paths == {DotEnv, OtherPath}

\* ------------------------------------------------------------------ state

Callers == 1 .. NCallers
TimerIds == 1 .. MaxTimers

\* a goroutine: a caller of InitEnv, or the callback of a timer
CallerThread(c) == <<"caller", c>>
TimerThread(id) == <<"timer", id>>

\* the zero value of a pointer, a channel, a time.Time, an unlocked mutex
Nil == <<>>

VARIABLES
  files,        \* file system: path -> text, or Missing
  fileMap,      \* path -> parseEnvFile of the text at the path, as a reader gets it
  env,          \* the process environment (os.Setenv / os.LookupEnv)
  loaded,       \* the file mapping the initial load() read, kept from that load
                \*   until watchEvents has read its first oldEnv; Nil otherwise
  once,         \* sync.Once: "idle", "running" (f executing), "done"
  callerPc,     \* caller -> "idle", "called", "load", "locked", "watcher", "returned"
  callerCfg,    \* caller -> cfg after the defaults (set by the caller that runs f)
  callerRet,    \* caller -> "none", or what InitEnv returned: "nil", "loadErr", "watchErr"
  filePath,     \* package variable filePath
  watcher,      \* package variable watcher: "nil", "open", "closed"
  watching,     \* the path added to the watcher, Nil when none
  closeCh,      \* package variable closeCh: "nil", "open", "closed"
  panicked,     \* the process died of a runtime panic
  loopPc,       \* goroutine watchEvents: "none", "start", "running", "exited"
  loopDelay,    \* parameter delay of watchEvents
  lastEvent,    \* local lastEvent of watchEvents: Nil (zero time) or <<t>>
  timer,        \* local timer of watchEvents: Nil or <<id>>
  loopLog,      \* the last line watchEvents wrote to logger
  timerPc,      \* timer -> "unused", "pending", "stopped", then the callback's place
  timerWhen,    \* timer -> the time a pending timer is due
  newEnv,       \* timer -> local newEnv of its callback
  applied,      \* timer -> the file mapping its callback's load() read, kept
                \*   from that load until the callback reads newEnv; Nil otherwise
  reported,     \* timer -> the diff events its callback has logged
  cbLog,        \* timer -> the last line its callback wrote to logger
  oldEnv,       \* local oldEnv of watchEvents, shared with the callbacks
  mu,           \* package variable mu: Nil or the goroutine holding it
  events,       \* notifications waiting in watcher.Events
  clock,        \* time.Now()
  nInitLoad,    \* calls of load() made by InitEnv
  nWatchers,    \* watchers created by fsnotify.NewWatcher
  nLoops,       \* go watchEvents statements executed
  nWatcherClose \* calls of watcher.Close()

fsVars == <<files, fileMap, events>>
initVars == <<once, callerPc, callerCfg, callerRet, filePath, nInitLoad>>
watchVars == <<watcher, watching, closeCh, nWatchers, nLoops, nWatcherClose>>
loopVars == <<loopPc, loopDelay, lastEvent, timer, loopLog>>
timerVars == <<timerPc, timerWhen, newEnv, applied, reported, cbLog>>
restVars == <<env, loaded, panicked, oldEnv, mu, clock>>

vars == <<fsVars, initVars, watchVars, loopVars, timerVars, restVars>>

\* the values cfg.FilePath, cfg.ReloadDelay take in a call of InitEnv
CfgPaths == {"", OtherPath}
CfgDelays == {0, 1}

NoCfg == [FilePath |-> "", HotReload |-> FALSE, ReloadDelay |-> 0]

\* the environment the process starts with
StartEnvs == {EmptyMap}

Init ==
  /\ files \in [Paths -> Texts \cup {Missing}]
  /\ fileMap = [p \in Paths |-> parseEnvFile(files[p])]
  /\ env \in StartEnvs
  /\ loaded = Nil
  /\ once = "idle"
  /\ callerPc = [c \in Callers |-> "idle"]
  /\ callerCfg = [c \in Callers |-> NoCfg]
  /\ callerRet = [c \in Callers |-> "none"]
  /\ filePath = ""
  /\ watcher = "nil"
  /\ watching = Nil
  /\ closeCh = "nil"
  /\ panicked = FALSE
  /\ loopPc = "none"
  /\ loopDelay = 0
  /\ lastEvent = Nil
  /\ timer = Nil
  /\ loopLog = "none"
  /\ timerPc = [id \in TimerIds |-> "unused"]
  /\ timerWhen = [id \in TimerIds |-> 0]
  /\ newEnv = [id \in TimerIds |-> EmptyMap]
  /\ applied = [id \in TimerIds |-> Nil]
  /\ reported = [id \in TimerIds |-> {}]
  /\ cbLog = [id \in TimerIds |-> "none"]
  /\ oldEnv = EmptyMap
  /\ mu = Nil
  /\ events = <<>>
  /\ clock = 0
  /\ nInitLoad = 0
  /\ nWatchers = 0
  /\ nLoops = 0
  /\ nWatcherClose = 0

\* a timer is over: stopped, or its callback has returned
TimerOver(pc) == pc \in {"unused", "stopped", "done", "failed", "readFailed"}

\* the process runs: a runtime panic ends every goroutine
Alive == ~panicked

\* ------------------------------------------------------------ environment

\* time passes.  Only the time between notifications and timers matters:
\* the clock starts with the event loop.
Tick ==
  /\ Alive
  /\ clock < MaxTime
  /\ loopPc = "running" \/ \E id \in TimerIds : timerPc[id] = "pending"
  /\ clock' = clock + 1
  /\ UNCHANGED <<env, loaded, panicked, oldEnv, mu>>
  /\ UNCHANGED <<fsVars, initVars, watchVars, loopVars, timerVars>>

\* the watcher delivers notifications for path p
Watched(p) == watcher = "open" /\ watching = <<p>>

\* what fsnotify queues when the file at p is changed with an event of this kind
Notify(p, kind) == IF Watched(p) THEN Append(events, kind) ELSE events

\* room in the backlog for one more notification about p
CanNotify(p) == Watched(p) => Len(events) < MaxQueue

\* a goroutine may still read a file: InitEnv has not run, or the event loop
\* or a timer it armed is under way
Reading ==
  \/ once # "done"
  \/ loopPc \in {"start", "running"}
  \/ \E id \in TimerIds : ~TimerOver(timerPc[id])

\* the paths the program may still read: ".env" and the configured filePath
ReadPaths == IF Reading THEN {DotEnv} \cup ({filePath} \cap Paths) ELSE {}

\* something outside the program writes text t to path p
FsWrite(p, t) ==
  /\ Alive
  /\ p \in ReadPaths
  /\ CanNotify(p)
  /\ files' = [files EXCEPT ![p] = t]
  /\ fileMap' = [fileMap EXCEPT ![p] = parseEnvFile(t)]
  /\ events' = Notify(p, IF files[p] = Missing THEN "Create" ELSE "Write")
  /\ UNCHANGED <<initVars, watchVars, loopVars, timerVars, restVars>>

\* something outside the program removes the file at path p
FsRemove(p) ==
  /\ Alive
  /\ p \in ReadPaths
  /\ files[p] # Missing
  /\ CanNotify(p)
  /\ files' = [files EXCEPT ![p] = Missing]
  /\ fileMap' = [fileMap EXCEPT ![p] = parseEnvFile(Missing)]
  /\ events' = Notify(p, "Remove")
  /\ UNCHANGED <<initVars, watchVars, loopVars, timerVars, restVars>>

\* ------------------------------------------------------------------- load

\* os.ReadFile / godotenv's open of path p succeeds
Readable(p) == files[p] # Missing

\* godotenv's reading of a file into a map.  On the texts of the model
\* (KEY=VALUE lines, whole-line comments, blanks around keys and values) it
\* yields the mapping parseEnvFile yields, which fileMap holds for each path.
godotenvRead(text) == parseEnvFile(text)

\* a load that replaces the environment by the file's map
godotenvReplace(e, m) == m

\* godotenv.Load applied to environment e and the file's map m: Load sets
\* only the keys that the environment does not hold yet (it is Overload that
\* replaces the values of keys already set)
godotenvLoad(e, m) ==
  [k \in (DOMAIN e) \cup (DOMAIN m) |-> IF k \in DOMAIN e THEN e[k] ELSE m[k]]

\* a mu.Lock() that never waits
MuFreeAlways == TRUE

\* mu.Lock() in load() can proceed
MuFree == mu = Nil

\* a load() that reports no error when the file cannot be read
LoadNeverFails == FALSE

\* load() returns an error: godotenv.Load cannot read filePath
LoadFails == ~Readable(filePath)

\* the file mapping a load() has read, after the body of load() has run:
\* Nil when it failed
LoadedMap == IF LoadFails THEN Nil ELSE fileMap[filePath]

\* the environment after the body of load() has run
LoadedEnv ==
  IF LoadFails THEN env ELSE godotenvLoad(env, fileMap[filePath])

\* ---------------------------------------------------------------- InitEnv

\* a once that looks only at whether f has returned
OnceFreeRacy == once # "done"

\* once.Do(f) lets this call run f
OnceFree == once = "idle"

\* a goroutine calls InitEnv(cfg)
InitCall(c) ==
  /\ Alive
  /\ callerPc[c] = "idle"
  /\ callerPc' = [callerPc EXCEPT ![c] = "called"]
  /\ UNCHANGED <<once, callerCfg, callerRet, filePath, nInitLoad>>
  /\ UNCHANGED <<fsVars, watchVars, loopVars, timerVars, restVars>>

\* once.Do runs f in this call: the defaults and filePath are set
OnceEnter(c, fp, hot, rd) ==
  /\ Alive
  /\ callerPc[c] = "called"
  /\ OnceFree
  /\ once' = "running"
  /\ callerCfg' = [callerCfg EXCEPT ![c] =
                     [FilePath |-> IF fp = "" THEN DotEnv ELSE fp,
                      HotReload |-> hot,
                      ReloadDelay |-> IF rd = 0 THEN DefaultDelay ELSE rd]]
  /\ filePath' = (IF fp = "" THEN DotEnv ELSE fp)
  /\ callerPc' = [callerPc EXCEPT ![c] = "load"]
  /\ UNCHANGED <<callerRet, nInitLoad>>
  /\ UNCHANGED <<fsVars, watchVars, loopVars, timerVars, restVars>>

\* once.Do returns at once in a call made after f has returned; a call made
\* while f runs waits for that.  The call's own initErr is still nil.
OnceSkip(c) ==
  /\ Alive
  /\ callerPc[c] = "called"
  /\ once = "done"
  /\ callerPc' = [callerPc EXCEPT ![c] = "returned"]
  /\ callerRet' = [callerRet EXCEPT ![c] = "nil"]
  /\ UNCHANGED <<once, callerCfg, filePath, nInitLoad>>
  /\ UNCHANGED <<fsVars, watchVars, loopVars, timerVars, restVars>>

\* load() called by InitEnv: mu.Lock()
InitLoadLock(c) ==
  /\ Alive
  /\ callerPc[c] = "load"
  /\ MuFree
  /\ mu' = CallerThread(c)
  /\ callerPc' = [callerPc EXCEPT ![c] = "locked"]
  /\ nInitLoad' = nInitLoad + 1
  /\ UNCHANGED <<once, callerCfg, callerRet, filePath>>
  /\ UNCHANGED <<env, loaded, panicked, oldEnv, clock>>
  /\ UNCHANGED <<fsVars, watchVars, loopVars, timerVars>>

\* load() called by InitEnv: godotenv.Load and the deferred mu.Unlock(); on
\* an error f returns, and so does InitEnv with initErr
InitLoadApply(c) ==
  /\ Alive
  /\ callerPc[c] = "locked"
  /\ mu = CallerThread(c)
  /\ mu' = Nil
  /\ env' = LoadedEnv
  /\ loaded' = LoadedMap
  /\ IF LoadFails
     THEN /\ callerPc' = [callerPc EXCEPT ![c] = "returned"]
          /\ callerRet' = [callerRet EXCEPT ![c] = "loadErr"]
          /\ once' = "done"
     ELSE IF callerCfg[c].HotReload
     THEN /\ callerPc' = [callerPc EXCEPT ![c] = "watcher"]
          /\ UNCHANGED <<callerRet, once>>
     ELSE /\ callerPc' = [callerPc EXCEPT ![c] = "returned"]
          /\ callerRet' = [callerRet EXCEPT ![c] = "nil"]
          /\ once' = "done"
  /\ UNCHANGED <<callerCfg, filePath, nInitLoad>>
  /\ UNCHANGED <<panicked, oldEnv, clock>>
  /\ UNCHANGED <<fsVars, watchVars, loopVars, timerVars>>

\* initWatcher(cfg.FilePath), then go watchEvents(cfg.ReloadDelay); f and
\* InitEnv return.  newOk: fsnotify.NewWatcher succeeds.  watcher.Add fails on
\* a path that does not exist.
InitWatcher(c, newOk) ==
  /\ Alive
  /\ callerPc[c] = "watcher"
  /\ callerPc' = [callerPc EXCEPT ![c] = "returned"]
  /\ once' = "done"
  /\ IF ~newOk
     THEN /\ watcher' = "nil"
          /\ callerRet' = [callerRet EXCEPT ![c] = "watchErr"]
          /\ UNCHANGED <<watching, closeCh, nWatchers, nLoops, loopPc, loopDelay>>
     ELSE IF ~Readable(callerCfg[c].FilePath)
     THEN /\ watcher' = "open"
          /\ nWatchers' = nWatchers + 1
          /\ callerRet' = [callerRet EXCEPT ![c] = "watchErr"]
          /\ UNCHANGED <<watching, closeCh, nLoops, loopPc, loopDelay>>
     ELSE /\ watcher' = "open"
          /\ nWatchers' = nWatchers + 1
          /\ watching' = <<callerCfg[c].FilePath>>
          /\ closeCh' = "open"
          /\ loopPc' = "start"
          /\ loopDelay' = callerCfg[c].ReloadDelay
          /\ nLoops' = nLoops + 1
          /\ callerRet' = [callerRet EXCEPT ![c] = "nil"]
  /\ UNCHANGED <<callerCfg, filePath, nInitLoad, nWatcherClose>>
  /\ UNCHANGED <<lastEvent, timer, loopLog>>
  /\ UNCHANGED <<fsVars, timerVars, restVars>>

\* ------------------------------------------------------------------ Close

\* close(closeCh) panics on a channel that is closed already
ClosePanics == closeCh = "closed"

\* Close()
Close ==
  /\ Alive
  /\ closeCh' = (IF closeCh = "open" THEN "closed" ELSE closeCh)
  /\ panicked' = ClosePanics
  /\ UNCHANGED <<watcher, watching, nWatchers, nLoops, nWatcherClose>>
  /\ UNCHANGED <<env, loaded, oldEnv, mu, clock>>
  /\ UNCHANGED <<fsVars, initVars, loopVars, timerVars>>

\* ------------------------------------------------------------ watchEvents

\* a return of watchEvents that leaves the watcher open
LoopReturnLeak ==
  /\ loopPc' = "exited"
  /\ UNCHANGED <<watcher, nWatcherClose>>

\* the deferred watcher.Close() as watchEvents returns
LoopReturn ==
  /\ loopPc' = "exited"
  /\ watcher' = "closed"
  /\ nWatcherClose' = nWatcherClose + 1

\* watchEvents up to its loop: oldEnv is read from ".env", whatever filePath is
WatchStart ==
  /\ Alive
  /\ loopPc = "start"
  /\ IF Readable(DotEnv)
     THEN /\ oldEnv' = fileMap[DotEnv]
          /\ loopPc' = "running"
          /\ UNCHANGED <<watcher, nWatcherClose, loopLog>>
     ELSE /\ loopLog' = "ReadOldFailed"
          /\ LoopReturn
          /\ UNCHANGED oldEnv
  /\ UNCHANGED <<watching, closeCh, nWatchers, nLoops, loopDelay, lastEvent, timer>>
  /\ loaded' = Nil
  /\ UNCHANGED <<env, panicked, mu, clock>>
  /\ UNCHANGED <<fsVars, initVars, timerVars>>

\* a gap filter that also drops the event arriving exactly delay later
TooSoonInclusive(now, last, delay) == last # Nil /\ now - last[1] <= delay

\* now.Sub(lastEvent) < delay; the zero lastEvent is ages before any now
TooSoon(now, last, delay) == last # Nil /\ now - last[1] < delay

\* an event loop that reloads on Write only
IsWriteOnly(kind) == kind = "Write"

\* event.Has(fsnotify.Write) || event.Has(fsnotify.Create)
IsWriteOrCreate(kind) == kind \in {"Write", "Create"}

\* an event loop that arms the new timer and leaves the old one running
StopTimerForgotten(pcs) == pcs

\* if timer != nil { timer.Stop() }: a timer that has not fired never will
StopTimer(pcs) ==
  IF timer # Nil /\ pcs[timer[1]] = "pending"
  THEN [pcs EXCEPT ![timer[1]] = "stopped"]
  ELSE pcs

\* the timers time.AfterFunc can take, given the timers' places: one that
\* is over, and not the one the loop's timer still refers to while another
\* is to be had (AfterFunc makes a new timer)
FreeTimers(pcs) ==
  LET over == {id \in TimerIds : TimerOver(pcs[id])}
      fresh == {id \in over : timer # <<id>>}
  IN  IF fresh # {} THEN fresh ELSE over

\* when a timer armed at time now with duration d is due
DueTime(now, d) == now + d

\* case event, ok := <-watcher.Events
EventRecv ==
  /\ Alive
  /\ loopPc = "running"
  /\ watcher = "closed" \/ events # <<>>
  /\ IF watcher = "closed"
     THEN /\ LoopReturn
          /\ UNCHANGED <<events, lastEvent, timer, timerVars>>
     ELSE LET kind == Head(events)
              now == clock
              stopped == StopTimer(timerPc)
          IN  /\ events' = Tail(events)
              /\ UNCHANGED <<loopPc, watcher, nWatcherClose>>
              /\ IF TooSoon(now, lastEvent, loopDelay) \/ ~IsWriteOrCreate(kind)
                 THEN UNCHANGED <<lastEvent, timer, timerVars>>
                 ELSE /\ FreeTimers(stopped) # {}
                      /\ LET id == CHOOSE i \in FreeTimers(stopped) :
                                     \A j \in FreeTimers(stopped) : i <= j
                         IN  /\ timerPc' = [stopped EXCEPT ![id] = "pending"]
                             /\ timerWhen' = [timerWhen EXCEPT ![id] = DueTime(now, loopDelay)]
                             /\ newEnv' = [newEnv EXCEPT ![id] = EmptyMap]
                             /\ applied' = [applied EXCEPT ![id] = Nil]
                             /\ reported' = [reported EXCEPT ![id] = {}]
                             /\ cbLog' = [cbLog EXCEPT ![id] = "none"]
                             /\ timer' = <<id>>
                      /\ lastEvent' = <<now>>
  /\ UNCHANGED <<files, fileMap, watching, closeCh, nWatchers, nLoops, loopDelay, loopLog>>
  /\ UNCHANGED <<initVars, restVars>>

\* an event loop that returns on a watcher error
ErrRecvFatal ==
  /\ Alive
  /\ loopPc = "running"
  /\ loopLog' = "WatcherError"
  /\ LoopReturn
  /\ UNCHANGED <<watching, closeCh, nWatchers, nLoops, loopDelay, lastEvent, timer>>
  /\ UNCHANGED <<fsVars, initVars, timerVars, restVars>>

\* case err, ok := <-watcher.Errors: the watcher reports an error
ErrRecv ==
  /\ Alive
  /\ loopPc = "running"
  /\ IF watcher = "closed"
     THEN /\ LoopReturn
          /\ UNCHANGED loopLog
     ELSE /\ loopLog' = "WatcherError"
          /\ UNCHANGED <<loopPc, watcher, nWatcherClose>>
  /\ UNCHANGED <<watching, closeCh, nWatchers, nLoops, loopDelay, lastEvent, timer>>
  /\ UNCHANGED <<fsVars, initVars, timerVars, restVars>>

\* case <-closeCh
CloseRecv ==
  /\ Alive
  /\ loopPc = "running"
  /\ closeCh = "closed"
  /\ LoopReturn
  /\ UNCHANGED <<watching, closeCh, nWatchers, nLoops>>
  /\ UNCHANGED <<loopDelay, lastEvent, timer, loopLog>>
  /\ UNCHANGED <<fsVars, initVars, timerVars, restVars>>

\* --------------------------------------------------- the timer's callback

\* the runtime starts the function of a timer that is due
TimerFire(id) ==
  /\ Alive
  /\ timerPc[id] = "pending"
  /\ clock >= timerWhen[id]
  /\ timerPc' = [timerPc EXCEPT ![id] = "load"]
  /\ timerWhen' = [timerWhen EXCEPT ![id] = 0]
  /\ UNCHANGED <<newEnv, applied, reported, cbLog>>
  /\ UNCHANGED <<fsVars, initVars, watchVars, loopVars, restVars>>

\* load() called by the callback: mu.Lock()
CbLoadLock(id) ==
  /\ Alive
  /\ timerPc[id] = "load"
  /\ MuFree
  /\ mu' = TimerThread(id)
  /\ timerPc' = [timerPc EXCEPT ![id] = "locked"]
  /\ UNCHANGED <<timerWhen, newEnv, applied, reported, cbLog>>
  /\ UNCHANGED <<env, loaded, panicked, oldEnv, clock>>
  /\ UNCHANGED <<fsVars, initVars, watchVars, loopVars>>

\* a callback that goes on to the diff whatever load() returned
AfterReloadIgnoringError == "read"

\* the callback's place after load() has returned
AfterReload == IF LoadFails THEN "failed" ELSE "read"

\* load() called by the callback: godotenv.Load and the deferred mu.Unlock(),
\* then "Reload failed" or "Successfully reloaded"
CbLoadApply(id) ==
  /\ Alive
  /\ timerPc[id] = "locked"
  /\ mu = TimerThread(id)
  /\ mu' = Nil
  /\ env' = LoadedEnv
  /\ applied' = [applied EXCEPT ![id] = LoadedMap]
  /\ cbLog' = [cbLog EXCEPT ![id] = IF LoadFails THEN "ReloadFailed" ELSE "Reloaded"]
  /\ timerPc' = [timerPc EXCEPT ![id] = AfterReload]
  /\ UNCHANGED <<timerWhen, newEnv, reported>>
  /\ UNCHANGED <<loaded, panicked, oldEnv, clock>>
  /\ UNCHANGED <<fsVars, initVars, watchVars, loopVars>>

\* newEnvContent, err := os.ReadFile(".env"); newEnv := parseEnvFile(...)
CbRead(id) ==
  /\ Alive
  /\ timerPc[id] = "read"
  /\ IF Readable(DotEnv)
     THEN /\ newEnv' = [newEnv EXCEPT ![id] = fileMap[DotEnv]]
          /\ timerPc' = [timerPc EXCEPT ![id] = "diffNew"]
          /\ applied' = [applied EXCEPT ![id] = Nil]
          /\ UNCHANGED cbLog
     ELSE /\ cbLog' = [cbLog EXCEPT ![id] = "ReadNewFailed"]
          /\ timerPc' = [timerPc EXCEPT ![id] = "readFailed"]
          /\ applied' = [applied EXCEPT ![id] = Nil]
          /\ UNCHANGED newEnv
  /\ UNCHANGED <<timerWhen, reported>>
  /\ UNCHANGED <<fsVars, initVars, watchVars, loopVars, restVars>>

\* for key, newValue := range newEnv { ... }
CbDiffNew(id) ==
  /\ Alive
  /\ timerPc[id] = "diffNew"
  /\ reported' = [reported EXCEPT ![id] = DiffNew(oldEnv, newEnv[id])]
  /\ timerPc' = [timerPc EXCEPT ![id] = "diffRemoved"]
  /\ UNCHANGED <<timerWhen, newEnv, applied, cbLog>>
  /\ UNCHANGED <<fsVars, initVars, watchVars, loopVars, restVars>>

\* for key := range oldEnv { ... }
CbDiffRemoved(id) ==
  /\ Alive
  /\ timerPc[id] = "diffRemoved"
  /\ reported' = [reported EXCEPT ![id] = @ \cup DiffRemoved(oldEnv, newEnv[id])]
  /\ timerPc' = [timerPc EXCEPT ![id] = "assign"]
  /\ UNCHANGED <<timerWhen, newEnv, applied, cbLog>>
  /\ UNCHANGED <<fsVars, initVars, watchVars, loopVars, restVars>>

\* oldEnv = newEnv
CbAssign(id) ==
  /\ Alive
  /\ timerPc[id] = "assign"
  /\ oldEnv' = newEnv[id]
  /\ newEnv' = [newEnv EXCEPT ![id] = EmptyMap]
  /\ timerPc' = [timerPc EXCEPT ![id] = "done"]
  /\ UNCHANGED <<timerWhen, applied, reported, cbLog>>
  /\ UNCHANGED <<env, loaded, panicked, mu, clock>>
  /\ UNCHANGED <<fsVars, initVars, watchVars, loopVars>>

\* ---------------------------------------------------------- specification

\* the goroutine whose call of InitEnv the watch specification follows
FirstCaller == CHOOSE c \in Callers : \A d \in Callers : c <= d

\* One call of InitEnv, then the event loop, its timers and Close, while the
\* file changes and time passes.  The call of Close that panics ends the
\* process and is left to SpecInit; the watcher's error channel, which only
\* writes to the log, is left to SpecErr.
Next ==
  \/ Tick
  \/ \E p \in Paths, t \in Texts : FsWrite(p, t)
  \/ \E p \in Paths : FsRemove(p)
  \/ InitCall(FirstCaller)
  \/ \E fp \in CfgPaths, hot \in BOOLEAN, rd \in CfgDelays :
       OnceEnter(FirstCaller, fp, hot, rd)
  \/ InitLoadLock(FirstCaller)
  \/ InitLoadApply(FirstCaller)
  \/ \E newOk \in BOOLEAN : InitWatcher(FirstCaller, newOk)
  \/ Close /\ ~ClosePanics
  \/ WatchStart
  \/ EventRecv
  \/ CloseRecv
  \/ \E id \in TimerIds : TimerFire(id)
  \/ \E id \in TimerIds : CbLoadLock(id)
  \/ \E id \in TimerIds : CbLoadApply(id)
  \/ \E id \in TimerIds : CbRead(id)
  \/ \E id \in TimerIds : CbDiffNew(id)
  \/ \E id \in TimerIds : CbDiffRemoved(id)
  \/ \E id \in TimerIds : CbAssign(id)

Spec == Init /\ [][Next]_vars

\* One step of the callback of timer id, from its firing to its return.
TimerStep(id) ==
  \/ TimerFire(id)
  \/ CbLoadLock(id)
  \/ CbLoadApply(id)
  \/ CbRead(id)
  \/ CbDiffNew(id)
  \/ CbDiffRemoved(id)
  \/ CbAssign(id)

\* The watch specification under a fair scheduler: time passes; the event
\* loop reads ".env" when it starts, and its select, which picks among the
\* ready cases at random, takes a closed closeCh in the end; a timer that is
\* due fires, and its callback, a goroutine of its own, is run to its end
\* (it waits only for mu, which its holder releases).
Fairness ==
  /\ WF_vars(Tick)
  /\ WF_vars(WatchStart \/ CloseRecv)
  /\ WF_vars(EventRecv)
  /\ \A id \in TimerIds : WF_vars(TimerStep(id))

SpecLive == Init /\ [][Next]_vars /\ Fairness

\* Several goroutines call InitEnv, and Close; the event loop starts and
\* ends, and consumes nothing.
NextInit ==
  \/ \E p \in Paths, t \in Texts : FsWrite(p, t)
  \/ \E p \in Paths : FsRemove(p)
  \/ \E c \in Callers : InitCall(c)
  \/ \E c \in Callers, fp \in CfgPaths, hot \in BOOLEAN, rd \in CfgDelays :
       OnceEnter(c, fp, hot, rd)
  \/ \E c \in Callers : OnceSkip(c)
  \/ \E c \in Callers : InitLoadLock(c)
  \/ \E c \in Callers : InitLoadApply(c)
  \/ \E c \in Callers, newOk \in BOOLEAN : InitWatcher(c, newOk)
  \/ Close
  \/ WatchStart
  \/ CloseRecv

SpecInit == Init /\ [][NextInit]_vars

\* The watch specification with the watcher reporting errors.
NextErr == Next \/ ErrRecv

SpecErr == Init /\ [][NextErr]_vars

\* The report of one callback, for every pair of mappings old and new over
\* a few keys and values: InitEnv has returned, the loop runs, and the
\* callback of the first timer has reloaded and read newEnv.
DiffKeys == {<<"a">>, <<"b">>, <<"c">>, <<"d">>}
DiffVals == {<<"1">>, <<"2">>}
DiffMaps == UNION {[D -> DiffVals] : D \in SUBSET DiffKeys}

FirstTimer == CHOOSE i \in TimerIds : \A j \in TimerIds : i <= j

InitDiff ==
  /\ oldEnv \in DiffMaps
  /\ \E m \in DiffMaps : newEnv = [id \in TimerIds |-> IF id = FirstTimer THEN m ELSE EmptyMap]
  /\ files = [p \in Paths |-> Text1]
  /\ fileMap = [p \in Paths |-> parseEnvFile(Text1)]
  /\ env = godotenvRead(Text1)
  /\ loaded = Nil
  /\ applied = [id \in TimerIds |-> Nil]
  /\ once = "done"
  /\ callerPc = [c \in Callers |-> IF c = FirstCaller THEN "returned" ELSE "idle"]
  /\ callerCfg = [c \in Callers |->
                    IF c = FirstCaller
                    THEN [FilePath |-> DotEnv, HotReload |-> TRUE, ReloadDelay |-> DefaultDelay]
                    ELSE NoCfg]
  /\ callerRet = [c \in Callers |-> IF c = FirstCaller THEN "nil" ELSE "none"]
  /\ filePath = DotEnv
  /\ watcher = "open"
  /\ watching = <<DotEnv>>
  /\ closeCh = "open"
  /\ panicked = FALSE
  /\ loopPc = "running"
  /\ loopDelay = DefaultDelay
  /\ lastEvent = <<0>>
  /\ timer = <<FirstTimer>>
  /\ loopLog = "none"
  /\ timerPc = [id \in TimerIds |-> IF id = FirstTimer THEN "diffNew" ELSE "unused"]
  /\ timerWhen = [id \in TimerIds |-> 0]
  /\ reported = [id \in TimerIds |-> {}]
  /\ cbLog = [id \in TimerIds |-> IF id = FirstTimer THEN "Reloaded" ELSE "none"]
  /\ mu = Nil
  /\ events = <<>>
  /\ clock = DefaultDelay
  /\ nInitLoad = 1
  /\ nWatchers = 1
  /\ nLoops = 1
  /\ nWatcherClose = 0

NextDiff ==
  \/ \E id \in TimerIds : CbDiffNew(id)
  \/ \E id \in TimerIds : CbDiffRemoved(id)
  \/ \E id \in TimerIds : CbAssign(id)

SpecDiff == InitDiff /\ [][NextDiff]_vars

\* parseEnvFile on its own, for every content up to MaxText characters over
\* a letter, "=", "#", blank and newline: InitEnv has loaded ".env", set up
\* the watcher and started watchEvents, which is about to read and parse the
\* file.
ParseChars == {"a", "=", "#", " ", "\n"}
ParseTexts == UNION {[1 .. n -> ParseChars] : n \in 0 .. MaxText}

\* the state InitEnv leaves when it has loaded path fp and started the event
\* loop, but for the file system, the environment and the timers' newEnv
LoopStarted(fp) ==
  /\ once = "done"
  /\ callerPc = [c \in Callers |-> IF c = FirstCaller THEN "returned" ELSE "idle"]
  /\ callerCfg = [c \in Callers |->
                    IF c = FirstCaller
                    THEN [FilePath |-> fp, HotReload |-> TRUE, ReloadDelay |-> DefaultDelay]
                    ELSE NoCfg]
  /\ callerRet = [c \in Callers |-> IF c = FirstCaller THEN "nil" ELSE "none"]
  /\ filePath = fp
  /\ watcher = "open"
  /\ watching = <<fp>>
  /\ closeCh = "open"
  /\ panicked = FALSE
  /\ loopPc = "start"
  /\ loopDelay = DefaultDelay
  /\ lastEvent = Nil
  /\ timer = Nil
  /\ loopLog = "none"
  /\ timerPc = [id \in TimerIds |-> "unused"]
  /\ timerWhen = [id \in TimerIds |-> 0]
  /\ applied = [id \in TimerIds |-> Nil]
  /\ reported = [id \in TimerIds |-> {}]
  /\ cbLog = [id \in TimerIds |-> "none"]
  /\ oldEnv = EmptyMap
  /\ mu = Nil
  /\ events = <<>>
  /\ clock = 0
  /\ nInitLoad = 1
  /\ nWatchers = 1
  /\ nLoops = 1
  /\ nWatcherClose = 0

InitParse ==
  /\ \E t \in ParseTexts : files = [p \in Paths |-> IF p = DotEnv THEN t ELSE Missing]
  /\ fileMap = [p \in Paths |-> parseEnvFile(files[p])]
  /\ env = godotenvLoad(EmptyMap, fileMap[DotEnv])
  /\ loaded = fileMap[DotEnv]
  /\ newEnv = [id \in TimerIds |-> EmptyMap]
  /\ LoopStarted(DotEnv)

NextParse == WatchStart

SpecParse == InitParse /\ [][NextParse]_vars

\* A mapping written out as KEY=VALUE lines and parsed back, for every
\* mapping of up to MaxEntries entries with keys and values of up to MaxWord
\* characters.  The mapping is kept in newEnv of the first timer; ".env" does
\* not exist until the lines are written to it, and watchEvents, started for
\* another file, then reads and parses it.
RoundWords == UNION {[1 .. n -> ParseChars] : n \in 0 .. MaxWord}

RECURSIVE KeySets(_)
KeySets(n) ==
  IF n = 0 THEN {{}}
  ELSE KeySets(n - 1) \cup {S \cup {w} : S \in KeySets(n - 1), w \in RoundWords}

RoundMaps == UNION {[D -> RoundWords] : D \in KeySets(MaxEntries)}

\* m as text: one KEY=VALUE line per entry, newlines between the lines
RECURSIVE Serialize(_)
Serialize(m) ==
  IF DOMAIN m = {} THEN <<>>
  ELSE LET k == CHOOSE x \in DOMAIN m : TRUE
           rest == [y \in (DOMAIN m) \ {k} |-> m[y]]
       IN  k \o <<"=">> \o m[k] \o
             (IF DOMAIN rest = {} THEN <<>> ELSE <<"\n">> \o Serialize(rest))

\* a comment line: a file without entries
CommentOnly == <<"#", " ", "c">>

InitRound ==
  /\ files = [p \in Paths |-> IF p = DotEnv THEN Missing ELSE CommentOnly]
  /\ fileMap = [p \in Paths |-> parseEnvFile(files[p])]
  /\ env = EmptyMap
  /\ loaded = fileMap[OtherPath]
  /\ \E m \in RoundMaps : newEnv = [id \in TimerIds |-> IF id = FirstTimer THEN m ELSE EmptyMap]
  /\ LoopStarted(OtherPath)

NextRound ==
  \/ FsWrite(DotEnv, Serialize(newEnv[FirstTimer]))
  \/ WatchStart

SpecRound == InitRound /\ [][NextRound]_vars

\* ----------------------------------------------------------------- claims

\* C1: Close() is idempotent: called twice or more, it raises no panic, and
\* the watcher is released at most once.
C1_CloseIdempotent == ~panicked /\ nWatcherClose <= 1

\* C2: every call of InitEnv that has returned reports the outcome of the
\* first call: the first call's failure, or success.
C2_SameOutcome ==
  \A c \in Callers, d \in Callers :
    (callerRet[c] # "none" /\ callerRet[d] # "none") => callerRet[c] = callerRet[d]

\* C3: however many goroutines call InitEnv, the initial load() runs exactly
\* once (never twice, and once when a call has returned), and at most one
\* watcher and at most one watchEvents loop are created.
C3_SingleInit ==
  /\ nInitLoad <= 1
  /\ nWatchers <= 1
  /\ nLoops <= 1
  /\ (\E c \in Callers : callerPc[c] = "returned") => nInitLoad = 1

\* two calls of InitEnv have returned and the one event loop was started
C3_Witness ==
  /\ Cardinality({c \in Callers : callerPc[c] = "returned"}) >= 2
  /\ nLoops = 1

\* a goroutine leaves the body of load() with no error in this step
LoadSucceeds ==
  /\ \/ \E c \in Callers : callerPc[c] = "locked" /\ callerPc'[c] # "locked"
     \/ \E id \in TimerIds : timerPc[id] = "locked" /\ timerPc'[id] # "locked"
  /\ Readable(filePath)

\* C4: after a successful load the environment maps every key of the file to
\* the file's value, whatever value the key had before.
C4_LoadOverwrites ==
  [][LoadSucceeds =>
       \A k \in DOMAIN godotenvRead(files[filePath]) :
         k \in DOMAIN env' /\ env'[k] = godotenvRead(files[filePath])[k]]_vars

\* C5: once the event loop has terminated and closed the watcher, no timer
\* callback (reload and diff) starts any more.
C5_NoReloadAfterShutdown ==
  [][(loopPc = "exited" /\ watcher = "closed") =>
       \A id \in TimerIds : ~(timerPc[id] = "pending" /\ timerPc'[id] # "pending")]_vars

\* the event loop takes a notification off watcher.Events in this step
EventTaken == loopPc = "running" /\ Len(events') < Len(events)

\* C6: a notification is accepted when it is a Write or a Create and it is
\* the first one or comes at least reloadDelay after the last accepted one:
\* it becomes the last accepted event and arms the timer for reloadDelay
\* later.  Any other notification (a Write or Create arriving sooner, or one
\* of another kind) leaves the last accepted time and every timer alone.
C6_GapFilter ==
  [][EventTaken =>
       IF /\ Head(events) \in {"Write", "Create"}
          /\ (lastEvent = Nil \/ clock - lastEvent[1] >= loopDelay)
       THEN /\ lastEvent' = <<clock>>
            /\ timer' # Nil
            /\ timerPc'[timer'[1]] = "pending"
            /\ timerWhen'[timer'[1]] = clock + loopDelay
       ELSE /\ lastEvent' = lastEvent
            /\ timer' = timer
            /\ timerPc' = timerPc
            /\ timerWhen' = timerWhen]_vars

\* a second notification was accepted reloadDelay or more after an accepted
\* one, whose timer had fired; its own timer is pending
C6_Witness ==
  /\ loopPc = "running"
  /\ lastEvent # Nil
  /\ lastEvent[1] >= loopDelay
  /\ loopDelay > 0
  /\ \E id \in TimerIds, other \in TimerIds :
       /\ timer = <<id>>
       /\ timerPc[id] = "pending"
       /\ other # id
       /\ timerPc[other] \notin {"unused", "pending", "stopped"}

\* the timers that are armed and have not fired
Pending == {id \in TimerIds : timerPc[id] = "pending"}

ExpectedAbout(old, new, k) ==
  IF k \notin DOMAIN old THEN {<<"Added", k, new[k]>>}
  ELSE IF k \notin DOMAIN new THEN {<<"Removed", k>>}
  ELSE IF old[k] # new[k] THEN {<<"Changed", k, old[k], new[k]>>}
  ELSE {}

\* C8: for every old and new, a callback that has run both loops has
\* reported, about each key of old or new, exactly Added, Changed, Removed
\* or nothing, as the claim says, and nothing about any other key.
C8_DiffExact ==
  \A id \in TimerIds :
    timerPc[id] = "assign" =>
      LET keys == (DOMAIN oldEnv) \cup (DOMAIN newEnv[id])
      IN  /\ \A k \in keys :
                {e \in reported[id] : e[2] = k} = ExpectedAbout(oldEnv, newEnv[id], k)
          /\ \A e \in reported[id] : e[2] \in keys

\* a report holding an Added, a Changed and a Removed event, with a fourth
\* key unchanged
C8_Witness ==
  \E id \in TimerIds :
    /\ timerPc[id] = "assign"
    /\ \E e \in reported[id] : e[1] = "Added"
    /\ \E e \in reported[id] : e[1] = "Changed"
    /\ \E e \in reported[id] : e[1] = "Removed"
    /\ \E k \in (DOMAIN oldEnv) \cap (DOMAIN newEnv[id]) : oldEnv[k] = newEnv[id][k]

\* C9: no step deletes a key from the environment, and a key's value changes
\* only to the value the file holds for it: a key that has left the file
\* keeps the value it had.
C9_NeverUnset ==
  [][\A k \in DOMAIN env :
       /\ k \in DOMAIN env'
       /\ env'[k] # env[k] =>
            /\ Readable(filePath)
            /\ k \in DOMAIN godotenvRead(files[filePath])
            /\ env'[k] = godotenvRead(files[filePath])[k]]_vars

\* a callback has reported a key Removed, the file does not hold the key,
\* and the environment still does
C9_Witness ==
  /\ filePath \in Paths
  /\ Readable(filePath)
  /\ \E id \in TimerIds, k \in DOMAIN env :
       /\ timerPc[id] = "done"
       /\ <<"Removed", k>> \in reported[id]
       /\ k \notin DOMAIN godotenvRead(files[filePath])

\* C10: a reload that finds the file missing logs "Reload failed" and ends
\* the callback; the environment, oldEnv, the callback's (empty) report and
\* the event loop are as they were, and the process goes on.
C10_ReloadFailureHarmless ==
  [][\A id \in TimerIds :
       (timerPc[id] = "locked" /\ timerPc'[id] # "locked" /\ ~Readable(filePath)) =>
         /\ timerPc'[id] = "failed"
         /\ cbLog'[id] = "ReloadFailed"
         /\ env' = env
         /\ oldEnv' = oldEnv
         /\ reported'[id] = {}
         /\ loopPc' = loopPc
         /\ lastEvent' = lastEvent
         /\ timer' = timer
         /\ ~panicked']_vars

\* a reload has failed, the loop runs on, and a later reload holds the lock
\* with the file back in place
C10_Witness ==
  /\ loopPc = "running"
  /\ filePath \in Paths
  /\ Readable(filePath)
  /\ \E id \in TimerIds, later \in TimerIds :
       /\ timerPc[id] = "failed"
       /\ cbLog[id] = "ReloadFailed"
       /\ timerPc[later] = "locked"

\* C11: when the first load fails, InitEnv returns the load error and there
\* is no watcher, no closeCh and no event loop.  When the first load has
\* succeeded and the watcher cannot be set up (NewWatcher fails, or Add fails
\* on a path that is gone), InitEnv returns the watcher error, no event loop
\* is started, and the environment keeps what the first load applied.
C11_InitErrors ==
  /\ [](\A c \in Callers :
          /\ callerRet[c] = "loadErr" =>
               /\ watcher = "nil" /\ nWatchers = 0 /\ closeCh = "nil"
               /\ nLoops = 0 /\ loopPc = "none"
               /\ env \in StartEnvs
          /\ callerRet[c] = "watchErr" =>
               /\ nLoops = 0 /\ loopPc = "none" /\ closeCh = "nil"
               /\ \E t \in Texts : env = godotenvLoad(EmptyMap, godotenvRead(t)))
  /\ [][\A c \in Callers :
          /\ (callerPc[c] = "locked" /\ callerPc'[c] # "locked" /\ ~Readable(filePath)) =>
               /\ callerPc'[c] = "returned"
               /\ callerRet'[c] = "loadErr"
               /\ env' = env
          /\ (callerPc[c] = "locked" /\ callerPc'[c] # "locked" /\ Readable(filePath)) =>
               callerRet'[c] # "loadErr"
          /\ (/\ callerPc[c] = "watcher" /\ callerPc'[c] # "watcher"
              /\ (watcher' = "nil" \/ ~Readable(callerCfg[c].FilePath))) =>
               /\ callerRet'[c] = "watchErr"
               /\ env' = env
               /\ loopPc' = "none"]_vars

\* InitEnv has returned the watcher error: the file was loaded and then
\* removed before watcher.Add; the environment holds the loaded values
C11_Witness ==
  \E c \in Callers :
    /\ callerRet[c] = "watchErr"
    /\ watcher = "open"
    /\ env # EmptyMap
    /\ ~Readable(filePath)

\* C12: once Close() has closed closeCh while the event loop runs (idle or
\* with a reload pending), the loop eventually returns and the watcher is
\* closed.
C12_CloseTerminates ==
  (closeCh = "closed" /\ loopPc \in {"start", "running"})
    ~> (loopPc = "exited" /\ watcher = "closed" /\ nWatcherClose = 1)

\* the loop has returned on closeCh with a reload pending, and closed the
\* watcher
C12_Witness ==
  /\ closeCh = "closed"
  /\ loopPc = "exited"
  /\ watcher = "closed"
  /\ loopLog = "none"
  /\ \E id \in TimerIds : timer = <<id>> /\ timerPc[id] = "pending"

\* the goroutines inside the read-and-apply section of load()
InLoad ==
  {CallerThread(c) : c \in {x \in Callers : callerPc[x] = "locked"}}
    \cup {TimerThread(id) : id \in {x \in TimerIds : timerPc[x] = "locked"}}

\* C13: at most one goroutine (the initial load or a timer callback) is in
\* the read-and-apply section of load(), it is the holder of mu, and only a
\* step of that goroutine writes the environment.
C13_LoadExclusive ==
  /\ [](/\ Cardinality(InLoad) <= 1
        /\ \A th \in InLoad : mu = th
        /\ mu # Nil => mu \in InLoad)
  /\ [][env' # env => (mu \in InLoad /\ mu' = Nil)]_vars

\* one callback is inside load() while the callback of another timer waits
\* for mu
C13_Witness ==
  \E id \in TimerIds, other \in TimerIds :
    /\ timerPc[id] = "locked"
    /\ mu = TimerThread(id)
    /\ timerPc[other] = "load"

\* a callback is at its diff: between its reading of newEnv and its
\* assignment to oldEnv
AtDiff(id) == timerPc[id] \in {"diffNew", "diffRemoved", "assign"}

\* C14: the first old mapping, which watchEvents reads as it starts, is the
\* content of the configured file that the initial load() read; the new
\* mapping (newEnv) a callback reads for its diff is the content its load()
\* read;
\* and while a callback is at its diff no other callback replaces oldEnv, so
\* that old is what the most recent earlier load read.
C14_SnapshotInvariant ==
  /\ [][(loopPc = "start" /\ loopPc' = "running") => oldEnv' = loaded]_vars
  /\ [][\A id \in TimerIds :
          (timerPc[id] = "read" /\ timerPc'[id] = "diffNew") => newEnv'[id] = applied[id]]_vars
  /\ [][\A id \in TimerIds :
          (AtDiff(id) /\ timerPc'[id] = timerPc[id]) => oldEnv' = oldEnv]_vars

\* C15: after InitEnv has returned nil with HotReload set, whatever filePath
\* is, the event loop returns only when closeCh has been closed or the
\* watcher's channels are closed.
C15_LoopEndsOnShutdownOnly ==
  [][(loopPc \in {"start", "running"} /\ loopPc' = "exited") =>
       (closeCh = "closed" \/ watcher = "closed")]_vars

\* the event loop logs a watcher error in this step
ErrorLogged == loopLog' = "WatcherError" /\ loopLog # "WatcherError"

\* C16: a watcher error is logged by the running loop and changes nothing
\* else: lastEvent, the timer and every timer's state are as before, the
\* backlog of notifications is untouched and the loop runs on; and a running
\* loop whose closeCh is open returns only when the watcher's channels are
\* closed.
C16_WatcherErrorHarmless ==
  /\ [][ErrorLogged =>
          /\ loopPc = "running" /\ loopPc' = "running"
          /\ lastEvent' = lastEvent
          /\ timer' = timer
          /\ timerPc' = timerPc
          /\ timerWhen' = timerWhen
          /\ events' = events
          /\ watcher' = watcher
          /\ env' = env /\ oldEnv' = oldEnv]_vars
  /\ [][(loopPc = "running" /\ loopPc' = "exited" /\ closeCh # "closed") =>
          watcher = "closed"]_vars

\* a watcher error was logged while a reload was pending, and the loop runs
\* on with the same timer
C16_Witness ==
  /\ loopLog = "WatcherError"
  /\ loopPc = "running"
  /\ lastEvent # Nil
  /\ \E id \in TimerIds : timer = <<id>> /\ timerPc[id] = "pending"

\* the callbacks that are inside their reload, diff or update of oldEnv:
\* from holding mu in load() to the assignment oldEnv = newEnv
Reloading ==
  {id \in TimerIds : timerPc[id] \in {"locked", "read", "diffNew", "diffRemoved", "assign"}}

\* C17: the load, diff and snapshot update of one timer callback are over
\* before those of another begin: no two callbacks are inside them at once.
C17_NoOverlap == Cardinality(Reloading) <= 1

\* what C18 says of a content, stated without the parser.  The lines of t
\* are the stretches between its newlines.
Breaks(t) == {0, Len(t) + 1} \cup {i \in 1 .. Len(t) : t[i] = "\n"}

\* the lines of t, each with the position of the break before it
LinesOf(t) ==
  {<<i, SubSeq(t, i + 1, (CHOOSE j \in Breaks(t) : j > i /\ \A x \in Breaks(t) : x > i => j <= x) - 1)>> :
     i \in Breaks(t) \ {Len(t) + 1}}

\* l without the blanks at its two ends
Trimmed(l) ==
  LET solid == {i \in 1 .. Len(l) : ~IsSpace(l[i])}
  IN  IF solid = {} THEN <<>>
      ELSE SubSeq(l, CHOOSE i \in solid : \A x \in solid : i <= x,
                     CHOOSE j \in solid : \A x \in solid : j >= x)

\* a line that contributes an entry
HasEntry(l) ==
  /\ Trimmed(l) # <<>>
  /\ Trimmed(l)[1] # "#"
  /\ \E i \in 1 .. Len(Trimmed(l)) : Trimmed(l)[i] = "="

\* the position of the first "=" of a trimmed line that has one
FirstEq(tl) == CHOOSE i \in 1 .. Len(tl) : tl[i] = "=" /\ \A x \in 1 .. (i - 1) : tl[x] # "="

KeyOf(l) == Trimmed(SubSeq(Trimmed(l), 1, FirstEq(Trimmed(l)) - 1))
ValueOf(l) == Trimmed(SubSeq(Trimmed(l), FirstEq(Trimmed(l)) + 1, Len(Trimmed(l))))

\* the mapping C18 describes: a key for each line with an entry, its value
\* from the last such line with that key
EntriesOf(t) ==
  LET entries == {ln \in LinesOf(t) : HasEntry(ln[2])}
      lastWith(k) == CHOOSE ln \in entries :
                       /\ KeyOf(ln[2]) = k
                       /\ \A o \in entries : KeyOf(o[2]) = k => o[1] <= ln[1]
  IN  [k \in {KeyOf(ln[2]) : ln \in entries} |-> ValueOf(lastWith(k)[2])]

\* C18: for every content, parseEnvFile yields one entry per distinct key of
\* the lines that, trimmed, are not empty, do not start with "#" and hold
\* "="; the key is the trimmed text before the first "=", the value the
\* trimmed text after it, the last line of a key giving its value; no other
\* line gives an entry.
C18_Parser ==
  loopPc = "running" => oldEnv = EntriesOf(files[DotEnv])

\* parsed: a content with two lines for one key and different values, and a
\* line that gives no entry
C18_Witness ==
  /\ loopPc = "running"
  /\ \E l1 \in LinesOf(files[DotEnv]), l2 \in LinesOf(files[DotEnv]) :
       /\ l1[1] < l2[1]
       /\ HasEntry(l1[2]) /\ HasEntry(l2[2])
       /\ KeyOf(l1[2]) = KeyOf(l2[2])
       /\ ValueOf(l1[2]) # ValueOf(l2[2])
       /\ oldEnv[KeyOf(l1[2])] = ValueOf(l2[2])

\* the mapping that was written out to ".env", once watchEvents has parsed
\* the file
RoundMap == newEnv[FirstTimer]
Parsed == loopPc = "running"

\* C19 as stated: every mapping, written out as one KEY=VALUE line per entry
\* and parsed by parseEnvFile, comes back equal.
C19_RoundTripAll == Parsed => oldEnv = RoundMap

\* a text parseEnvFile can yield as a key or a value: no newline in it and
\* no blank at either end
Plain(w) == TrimSpace(w) = w /\ \A i \in 1 .. Len(w) : w[i] # "\n"

\* a mapping whose keys and values are plain and whose keys hold no "=" and
\* do not start with "#"
WellFormed(m) ==
  \A k \in DOMAIN m :
    /\ Plain(k) /\ Plain(m[k])
    /\ \A i \in 1 .. Len(k) : k[i] # "="
    /\ ~(k # <<>> /\ k[1] = "#")

\* C19, amended: every well-formed mapping, written out as one KEY=VALUE
\* line per entry and parsed by parseEnvFile, comes back equal; a mapping
\* that is not well-formed never does.
C19_RoundTrip == Parsed => (oldEnv = RoundMap <=> WellFormed(RoundMap))

\* a well-formed mapping of two entries, one with the value "#" and one with
\* the value "=", has come back
C19_Witness ==
  /\ Parsed
  /\ WellFormed(RoundMap)
  /\ Cardinality(DOMAIN RoundMap) = 2
  /\ \E k \in DOMAIN RoundMap : RoundMap[k] = <<"#">>
  /\ \E k \in DOMAIN RoundMap : RoundMap[k] = <<"=">>
  /\ oldEnv = RoundMap

\* a Write or Create notification waits in the channel of the running loop
Notified == loopPc = "running" /\ events # <<>> /\ Head(events) \in {"Write", "Create"}

\* C20: no Write or Create notification is lost.  A Write or Create the loop
\* takes, accepted or dropped, leaves the loop's timer pending and due no
\* earlier than now; and a notification that waits in the channel is
\* followed by a callback inside load(), whose read of the file so comes
\* after the notification, unless the loop returns or Close() is called
\* (or the timer is due after the clock of the model stops).
C20_NoLostUpdate ==
  /\ [][(EventTaken /\ Head(events) \in {"Write", "Create"}) =>
          /\ timer' # Nil
          /\ timerPc'[timer'[1]] = "pending"
          /\ timerWhen'[timer'[1]] >= clock
          /\ \A id \in TimerIds :
               (timerPc[id] = "pending" /\ timerPc'[id] = "stopped") => timer' # <<id>>]_vars
  /\ Notified ~>
       \/ \E id \in TimerIds : timerPc[id] = "locked"
       \/ loopPc = "exited"
       \/ closeCh = "closed"
       \/ \E id \in TimerIds : timerPc[id] = "pending" /\ timerWhen[id] > MaxTime

\* the file was written after the last load, the notification was taken,
\* and the callback of the timer it left pending is inside load(), about to
\* read the new content
C20_Witness ==
  /\ loopPc = "running"
  /\ events = <<>>
  /\ filePath \in Paths
  /\ Readable(filePath)
  /\ lastEvent # Nil
  /\ clock >= lastEvent[1] + loopDelay
  /\ \E id \in TimerIds :
       /\ timer = <<id>>
       /\ timerPc[id] = "locked"
       /\ \A other \in TimerIds \ {id} : timerPc[other] \in {"unused", "done"}

====
